---------------------------- MODULE Spec2Model ----------------------------
(***************************************************************************)
(* A model of the river-style SQL formatter of src/sql-rise.py             *)
(* (class RiverFormatter and the part of main() that uses it).             *)
(*                                                                         *)
(* A Python string is a sequence of one-character strings; a list of       *)
(* strings is a sequence of such sequences.  Positions in the comments are *)
(* Python's (0-based); indexes in the formulas are 1-based.                *)
(***************************************************************************)
EXTENDS Integers, Sequences, FiniteSets, TLC

(***************************************************************************)
(* Characters and the str methods the formatter uses                       *)
(***************************************************************************)
LowerCase == <<"a", "b", "c", "d", "e", "f", "g", "h", "i", "j", "k", "l", "m",
               "n", "o", "p", "q", "r", "s", "t", "u", "v", "w", "x", "y", "z">>
UpperCase == <<"A", "B", "C", "D", "E", "F", "G", "H", "I", "J", "K", "L", "M",
               "N", "O", "P", "Q", "R", "S", "T", "U", "V", "W", "X", "Y", "Z">>
Digits == {"0", "1", "2", "3", "4", "5", "6", "7", "8", "9"}
UpperOf == [c \in {LowerCase[k] : k \in 1..26} |->
               UpperCase[CHOOSE k \in 1..26 : LowerCase[k] = c]]

\* str.isspace, on the whitespace the inputs hold: the blank and the newline
IsSpace(c) == c \in {" ", "\n"}
\* the regex class \w
IsWordChar(c) == \/ c \in DOMAIN UpperOf
                 \/ c \in {UpperCase[k] : k \in 1..26}
                 \/ c \in Digits
                 \/ c = "_"
UpperChar(c) == IF c \in DOMAIN UpperOf THEN UpperOf[c] ELSE c
\* str.upper
Upper(s) == [j \in 1..Len(s) |-> UpperChar(s[j])]

MinOf(S) == CHOOSE x \in S : \A y \in S : x <= y
MaxOf(S) == CHOOSE x \in S : \A y \in S : x >= y
\* max(0, n)
Max0(n) == IF n < 0 THEN 0 ELSE n
\* ' ' * n
Spaces(n) == [j \in 1..Max0(n) |-> " "]
\* s[a:] for a 0-based position a
From(s, a) == SubSeq(s, a + 1, Len(s))

\* the first index >= p of s that holds no whitespace, Len(s)+1 when none does
SkipWs(s, p) ==
    LET rest == {j \in p..Len(s) : ~IsSpace(s[j])}
    IN  IF rest = {} THEN Len(s) + 1 ELSE MinOf(rest)
\* str.lstrip, str.rstrip, str.strip
LStrip(s) == SubSeq(s, SkipWs(s, 1), Len(s))
RStrip(s) ==
    LET keep == {j \in 1..Len(s) : ~IsSpace(s[j])}
    IN  IF keep = {} THEN <<>> ELSE SubSeq(s, 1, MaxOf(keep))
Strip(s) == RStrip(LStrip(s))

\* s[p-1:].startswith(w), for a 1-based index p
HasAt(s, p, w) ==
    /\ p >= 1
    /\ p + Len(w) - 1 <= Len(s)
    /\ \A j \in 1..Len(w) : s[p + j - 1] = w[j]
\* the same, ignoring letter case (w is upper case)
HasAtI(s, p, w) ==
    /\ p >= 1
    /\ p + Len(w) - 1 <= Len(s)
    /\ \A j \in 1..Len(w) : UpperChar(s[p + j - 1]) = w[j]
StartsWith(s, w) == HasAt(s, 1, w)
EndsWith(s, w) == HasAt(s, Len(s) - Len(w) + 1, w)
\* w in s
Contains(s, w) == \E p \in 1..Len(s) : HasAt(s, p, w)
\* s.count(c) for a character c
Count(s, c) == Cardinality({j \in 1..Len(s) : s[j] = c})
\* x in list
InList(list, x) == \E j \in 1..Len(list) : list[j] = x
\* list.append(x) if x not in list
AppendNew(list, x) == IF InList(list, x) THEN list ELSE Append(list, x)

\* s.split(c) for a character c
RECURSIVE SplitOn(_, _)
SplitOn(s, c) ==
    LET at == {j \in 1..Len(s) : s[j] = c}
    IN  IF at = {} THEN <<s>>
        ELSE <<SubSeq(s, 1, MinOf(at) - 1)>> \o SplitOn(From(s, MinOf(at)), c)
\* s.split(): the maximal runs of non-whitespace
RECURSIVE SplitWs(_)
SplitWs(s) ==
    LET a == SkipWs(s, 1)
    IN  IF a > Len(s) THEN <<>>
        ELSE LET ws == {j \in a..Len(s) : IsSpace(s[j])}
                 e  == IF ws = {} THEN Len(s) + 1 ELSE MinOf(ws)
             IN  <<SubSeq(s, a, e - 1)>> \o SplitWs(From(s, e - 1))
\* sep.join(parts)
RECURSIVE Join(_, _)
Join(parts, sep) ==
    IF parts = <<>> THEN <<>>
    ELSE IF Len(parts) = 1 THEN parts[1]
    ELSE parts[1] \o sep \o Join(Tail(parts), sep)
\* ' '.join(s.split())
NormalizeWs(s) == Join(SplitWs(s), <<" ">>)

(***************************************************************************)
(* Keywords                                                                *)
(***************************************************************************)
kSELECT == <<"S", "E", "L", "E", "C", "T">>
kDISTINCT == <<"D", "I", "S", "T", "I", "N", "C", "T">>
kFROM == <<"F", "R", "O", "M">>
kWHERE == <<"W", "H", "E", "R", "E">>
kGROUP == <<"G", "R", "O", "U", "P">>
kBY == <<"B", "Y">>
kHAVING == <<"H", "A", "V", "I", "N", "G">>
kORDER == <<"O", "R", "D", "E", "R">>
kLIMIT == <<"L", "I", "M", "I", "T">>
kFULL == <<"F", "U", "L", "L">>
kOUTER == <<"O", "U", "T", "E", "R">>
kJOIN == <<"J", "O", "I", "N">>
kLEFT == <<"L", "E", "F", "T">>
kRIGHT == <<"R", "I", "G", "H", "T">>
kINNER == <<"I", "N", "N", "E", "R">>
kCROSS == <<"C", "R", "O", "S", "S">>
kUNION == <<"U", "N", "I", "O", "N">>
kALL == <<"A", "L", "L">>
kWITH == <<"W", "I", "T", "H">>
kAS == <<"A", "S">>
kCREATE == <<"C", "R", "E", "A", "T", "E">>
kTEMP == <<"T", "E", "M", "P">>
kTABLE == <<"T", "A", "B", "L", "E">>
kINSERT == <<"I", "N", "S", "E", "R", "T">>
kINTO == <<"I", "N", "T", "O">>
kUPDATE == <<"U", "P", "D", "A", "T", "E">>
kSET == <<"S", "E", "T">>
kDELETE == <<"D", "E", "L", "E", "T", "E">>
kDECLARE == <<"D", "E", "C", "L", "A", "R", "E">>
kDO == <<"D", "O">>
kCASE == <<"C", "A", "S", "E">>
kWHEN == <<"W", "H", "E", "N">>
kTHEN == <<"T", "H", "E", "N">>
kELSE == <<"E", "L", "S", "E">>
kEND == <<"E", "N", "D">>
kAND == <<"A", "N", "D">>
kOR == <<"O", "R">>
\* the comment marker '--'
kDashes == <<"-", "-">>

(***************************************************************************)
(* Regular expressions                                                     *)
(***************************************************************************)
\* \b before index p of s (between s[p-1] and s[p])
WordBoundary(s, p) ==
    LET before == p > 1 /\ p - 1 <= Len(s) /\ IsWordChar(s[p - 1])
        after  == p >= 1 /\ p <= Len(s) /\ IsWordChar(s[p])
    IN  before # after

\* A match of  w1\s+w2\s+...\s+wn\b  (re.IGNORECASE) that starts at index p:
\* the index after the match, 0 when there is none.
RECURSIVE MatchWordsFrom(_, _, _, _)
MatchWordsFrom(s, p, words, k) ==
    IF ~HasAtI(s, p, words[k]) THEN 0
    ELSE LET e == p + Len(words[k])
         IN  IF k = Len(words)
             THEN IF WordBoundary(s, e) THEN e ELSE 0
             ELSE LET q == SkipWs(s, e)
                  IN  IF q = e THEN 0 ELSE MatchWordsFrom(s, q, words, k + 1)
\* A match of  \bw1\s+...\s+wn\b  at index p
MatchWords(s, p, words) ==
    IF WordBoundary(s, p) THEN MatchWordsFrom(s, p, words, 1) ELSE 0

\* A match at index p of the first alternative of  (?:alt1|alt2|...)\b , each
\* alternative a keyword phrase
RECURSIVE MatchAlternatives(_, _, _, _)
MatchAlternatives(s, p, alts, k) ==
    IF k > Len(alts) THEN 0
    ELSE LET e == MatchWordsFrom(s, p, alts[k], 1)
         IN  IF e # 0 THEN e ELSE MatchAlternatives(s, p, alts, k + 1)


(***************************************************************************)
(* RiverFormatter.__init__: the pattern tables                             *)
(***************************************************************************)
Words(ws) == [kind |-> "words", words |-> ws]
\* the alternatives of the comment-with-keyword pattern of left_clause_patterns
comment_keyword_alternatives ==
    << <<kSELECT>>, <<kFROM>>, <<kWHERE>>, <<kGROUP, kBY>>, <<kHAVING>>,
       <<kORDER, kBY>>, <<kLIMIT>>, <<kJOIN>>, <<kLEFT, kJOIN>>,
       <<kRIGHT, kJOIN>>, <<kINNER, kJOIN>>, <<kFULL, kJOIN>>,
       <<kCROSS, kJOIN>>, <<kUNION>>, <<kWITH>>, <<kAS>>, <<kINSERT, kINTO>>,
       <<kUPDATE>>, <<kSET>>, <<kDELETE>>, <<kDECLARE>>, <<kDO>> >>
left_clause_patterns ==
    << Words(<<kSELECT, kDISTINCT>>), Words(<<kSELECT>>),
       Words(<<kFROM>>), Words(<<kWHERE>>), Words(<<kGROUP, kBY>>),
       Words(<<kHAVING>>), Words(<<kORDER, kBY>>), Words(<<kLIMIT>>),
       Words(<<kFULL, kOUTER, kJOIN>>), Words(<<kLEFT, kOUTER, kJOIN>>),
       Words(<<kRIGHT, kOUTER, kJOIN>>), Words(<<kINNER, kJOIN>>),
       Words(<<kLEFT, kJOIN>>), Words(<<kRIGHT, kJOIN>>),
       Words(<<kFULL, kJOIN>>), Words(<<kCROSS, kJOIN>>), Words(<<kJOIN>>),
       Words(<<kUNION, kALL>>), Words(<<kUNION>>),
       Words(<<kWITH>>), Words(<<kAS>>),
       Words(<<kCREATE, kTEMP, kTABLE>>), Words(<<kCREATE, kTABLE>>),
       Words(<<kINSERT, kINTO>>), Words(<<kUPDATE>>), Words(<<kSET>>),
       Words(<<kDELETE>>),
       [kind |-> "comment_comma", words |-> <<>>],
       [kind |-> "comment_keyword", words |-> <<>>],
       [kind |-> "comment", words |-> <<>>],
       Words(<<kDECLARE>>), Words(<<kDO>>) >>
secondary_clause_patterns ==
    << <<kCASE>>, <<kWHEN>>, <<kTHEN>>, <<kELSE>>, <<kEND>> >>
\* the keyword alternatives of the comment patterns of _extract_all_left_clauses
\* and _format_comment_line
comment_line_alternatives ==
    << <<kSELECT>>, <<kFROM>>, <<kWHERE>>, <<kGROUP, kBY>>, <<kHAVING>>,
       <<kORDER, kBY>>, <<kLIMIT>>, <<kINNER, kJOIN>>, <<kLEFT, kJOIN>>,
       <<kRIGHT, kJOIN>>, <<kFULL, kOUTER, kJOIN>>, <<kLEFT, kOUTER, kJOIN>>,
       <<kRIGHT, kOUTER, kJOIN>>, <<kFULL, kJOIN>>, <<kCROSS, kJOIN>>,
       <<kJOIN>>, <<kUNION, kALL>>, <<kUNION>>, <<kWITH>>, <<kAS>>,
       <<kCREATE, kTEMP, kTABLE>>, <<kCREATE, kTABLE>>, <<kINSERT, kINTO>>,
       <<kUPDATE>>, <<kSET>>, <<kDELETE>>, <<kDECLARE>>, <<kDO>> >>

\* A match of  --\s*,  at index p: the index after it, or 0
MatchCommentComma(s, p) ==
    IF ~HasAt(s, p, kDashes) THEN 0
    ELSE LET q == SkipWs(s, p + 2)
         IN  IF q <= Len(s) /\ s[q] = "," THEN q + 1 ELSE 0
\* A match of  --\s*\b(alternatives)\b  at index p: <<the index after it, the
\* index where the keyword starts>>, or <<0, 0>>
MatchCommentKeyword(s, p, alts) ==
    IF ~HasAt(s, p, kDashes) THEN <<0, 0>>
    ELSE LET q == SkipWs(s, p + 2)
         IN  IF ~WordBoundary(s, q) THEN <<0, 0>>
             ELSE LET e == MatchAlternatives(s, q, alts, 1)
                  IN  IF e = 0 THEN <<0, 0>> ELSE <<e, q>>
\* re.match of one pattern of left_clause_patterns at index p
MatchPattern(s, p, pat) ==
    CASE pat.kind = "words" -> MatchWords(s, p, pat.words)
      [] pat.kind = "comment_comma" -> MatchCommentComma(s, p)
      [] pat.kind = "comment_keyword" ->
            MatchCommentKeyword(s, p, comment_keyword_alternatives)[1]
      [] OTHER -> IF HasAt(s, p, kDashes) THEN p + 2 ELSE 0
\* re.finditer(pattern, s, re.IGNORECASE): the matched texts, left to right,
\* each match sought from where the one before it ended
RECURSIVE FindAll(_, _, _)
FindAll(s, pat, p) ==
    LET hits == {q \in p..Len(s) : MatchPattern(s, q, pat) # 0}
    IN  IF hits = {} THEN <<>>
        ELSE LET q == MinOf(hits)
                 e == MatchPattern(s, q, pat)
             IN  <<SubSeq(s, q, e - 1)>> \o FindAll(s, pat, e)

(***************************************************************************)
(* The analysis phase                                                      *)
(***************************************************************************)
\* _extract_all_left_clauses, its first loop: the texts the patterns match
RECURSIVE AddMatches(_, _, _)
AddMatches(list, found, k) ==
    IF k > Len(found) THEN list
    ELSE AddMatches(AppendNew(list, NormalizeWs(Strip(found[k]))), found, k + 1)
RECURSIVE ScanPatterns(_, _, _)
ScanPatterns(sql, list, k) ==
    IF k > Len(left_clause_patterns) THEN list
    ELSE ScanPatterns(sql,
                      AddMatches(list, FindAll(sql, left_clause_patterns[k], 1), 1),
                      k + 1)
\* _extract_all_left_clauses, its second loop: what one line adds
ScanLine(list, raw) ==
    LET line == Strip(raw)
        kw   == MatchCommentKeyword(line, 1, comment_line_alternatives)
    IN  IF StartsWith(line, <<",">>) THEN Append(list, <<",">>)
        ELSE IF StartsWith(line, kAND \o <<" ">>) \/ StartsWith(line, kOR \o <<" ">>)
        THEN Append(list, SplitWs(line)[1])
        ELSE IF StartsWith(line, kDashes)
        THEN IF MatchCommentComma(line, 1) # 0
             THEN AppendNew(list, <<"-", "-", " ", ",">>)
             ELSE IF kw[1] # 0
             THEN AppendNew(list, <<"-", "-", " ">> \o Upper(SubSeq(line, kw[2], kw[1] - 1)))
             ELSE AppendNew(list, kDashes)
        ELSE list
RECURSIVE ScanLines(_, _, _)
ScanLines(list, lines, k) ==
    IF k > Len(lines) THEN list
    ELSE ScanLines(ScanLine(list, lines[k]), lines, k + 1)
extract_all_left_clauses(sql) ==
    ScanLines(ScanPatterns(sql, <<>>, 1), SplitOn(sql, "\n"), 1)

\* a river taken from the first clause found instead of the longest
primary_river_of_first_clause(clauses) ==
    IF clauses = <<>> THEN 7 ELSE 7 + Len(clauses[1])
\* _calculate_primary_river
calculate_primary_river(clauses) ==
    IF clauses = <<>> THEN 7
    ELSE 7 + MaxOf({Len(clauses[k]) : k \in 1..Len(clauses)})

\* _remove_comments: every line cut at its first '--'
RemoveLineComment(line) ==
    LET at == {p \in 1..Len(line) : HasAt(line, p, kDashes)}
    IN  IF at = {} THEN line ELSE SubSeq(line, 1, MinOf(at) - 1)
remove_comments(sql) ==
    LET lines == SplitOn(sql, "\n")
    IN  Join([k \in 1..Len(lines) |-> RemoveLineComment(lines[k])], <<"\n">>)

\* A match of  (\w+)\s+AS\s*(\([^)]+\))  (re.IGNORECASE) at index p:
\* <<the index after the match, the index after the name>>, or <<0, 0>>
MatchCte(s, p) ==
    IF ~(p <= Len(s) /\ IsWordChar(s[p])) THEN <<0, 0>>
    ELSE LET nonword == {j \in p..Len(s) : ~IsWordChar(s[j])}
             e  == IF nonword = {} THEN Len(s) + 1 ELSE MinOf(nonword)
             a  == SkipWs(s, e)
             q  == SkipWs(s, a + 2)
             closing == {j \in (q + 1)..Len(s) : s[j] = ")"}
         IN  IF /\ a > e
                /\ HasAtI(s, a, kAS)
                /\ q <= Len(s)
                /\ s[q] = "("
                /\ closing # {}
                /\ MinOf(closing) > q + 1
             THEN <<MinOf(closing) + 1, e>>
             ELSE <<0, 0>>
\* re.finditer of that pattern: the matches as <<start, end, name end>>
RECURSIVE FindCtes(_, _)
FindCtes(s, p) ==
    LET hits == {q \in p..Len(s) : MatchCte(s, q)[1] # 0}
    IN  IF hits = {} THEN <<>>
        ELSE LET q == MinOf(hits)
                 m == MatchCte(s, q)
             IN  << <<q, m[1], m[2]>> >> \o FindCtes(s, m[1])
\* re.search(r'\bwords\b', s, re.IGNORECASE)
SearchWords(s, words) == \E p \in 1..Len(s) : MatchWords(s, p, words) # 0
\* the body of _analyze_cte_structure once sql_clean and cte_matches are bound
CteStructureOf(sql_clean, cte_matches) ==
    LET ctes == [k \in 1..Len(cte_matches) |->
                    [name |-> Upper(SubSeq(sql_clean, cte_matches[k][1],
                                           cte_matches[k][3] - 1)),
                     start_line |-> 1, end_line |-> 1, has_parentheses |-> TRUE]]
    IN  IF cte_matches = <<>> THEN <<>>
        ELSE LET last_match    == cte_matches[Len(cte_matches)]
                 remaining_sql == Strip(From(sql_clean, last_match[2] - 1))
             IN  IF SearchWords(remaining_sql, <<kSELECT>>)
                 THEN Append(ctes, [name |-> <<"M", "A", "I", "N", "_", "Q", "U", "E", "R", "Y">>,
                                    start_line |-> 1, end_line |-> 1,
                                    has_parentheses |-> FALSE])
                 ELSE ctes
\* _analyze_cte_structure: the new cte_structure
analyze_cte_structure(sql) ==
    CteStructureOf(remove_comments(sql), FindCtes(remove_comments(sql), 1))

\* re.search(r'\(\s*kw\b', s, re.IGNORECASE)
SearchSubquery(s, kw) ==
    \E p \in 1..Len(s) :
        s[p] = "(" /\ MatchWordsFrom(s, SkipWs(s, p + 1), <<kw>>, 1) # 0
\* _extract_secondary_clauses: the new secondary_clauses
RECURSIVE AddSecondary(_, _, _)
AddSecondary(sql, list, k) ==
    IF k > Len(secondary_clause_patterns) THEN list
    ELSE AddSecondary(sql,
                      IF SearchWords(sql, secondary_clause_patterns[k])
                      THEN AppendNew(list, secondary_clause_patterns[k][1])
                      ELSE list,
                      k + 1)
extract_secondary_clauses(sql) ==
    LET case_when == IF SearchWords(sql, <<kCASE, kWHEN>>)
                     THEN << kCASE \o <<" ">> \o kWHEN >> ELSE <<>>
        sub(list, kw) == IF SearchSubquery(sql, kw) THEN AppendNew(list, kw) ELSE list
    IN  AddSecondary(sql, sub(sub(sub(case_when, kSELECT), kFROM), kWHERE), 1)

\* a secondary river without the CASE WHEN override
secondary_river_by_length(primary, clauses) ==
    IF clauses = <<>> THEN primary + 10
    ELSE primary + MaxOf({Len(clauses[k]) : k \in 1..Len(clauses)}) + 4
\* _calculate_secondary_river
calculate_secondary_river(primary, clauses) ==
    IF clauses = <<>> THEN primary + 10
    ELSE LET max_secondary_length == MaxOf({Len(clauses[k]) : k \in 1..Len(clauses)})
             has_case_when == InList(clauses, kCASE \o <<" ">> \o kWHEN)
         IN  IF has_case_when THEN primary + 10
             ELSE primary + max_secondary_length + 4

(***************************************************************************)
(* _split_into_logical_lines                                               *)
(***************************************************************************)
\* the tokens that start a new logical line
split_keywords ==
    {kSELECT, kFROM, kWHERE, kGROUP, kBY, kORDER, kHAVING, kUNION, kAND, kOR}
\* lines.append(' '.join(current_tokens)) if current_tokens
Flush(lines, current_tokens) ==
    IF current_tokens = <<>> THEN lines
    ELSE Append(lines, Join(current_tokens, <<" ">>))
\* a tokenizer that does not end a word at a comma
ReadTokenKeepingCommas(sql, p) ==
    IF sql[p] = ";" THEN << <<sql[p]>>, p + 1 >>
    ELSE LET stop == {j \in p..Len(sql) : IsSpace(sql[j]) \/ sql[j] = ";"}
             e    == IF stop = {} THEN Len(sql) + 1 ELSE MinOf(stop)
         IN  << SubSeq(sql, p, e - 1), e >>
\* The token read at index p (no whitespace there): <<token, index after it>>
ReadToken(sql, p) ==
    IF sql[p] \in {",", ";"} THEN << <<sql[p]>>, p + 1 >>
    ELSE LET stop == {j \in p..Len(sql) : IsSpace(sql[j]) \/ sql[j] \in {",", ";"}}
             e    == IF stop = {} THEN Len(sql) + 1 ELSE MinOf(stop)
         IN  << SubSeq(sql, p, e - 1), e >>
\* a look-ahead that sets the scan back to the start of the keyword
CompoundRewinding(sql, token, i) ==
    IF /\ Upper(token) \in {kGROUP, kORDER} /\ SkipWs(sql, i) <= Len(sql)
       /\ HasAtI(sql, SkipWs(sql, i), kBY)
    THEN << Upper(token) \o <<" ">> \o kBY, i - Len(token) >>
    ELSE << token, i >>
\* The look-ahead for BY / ALL after GROUP, ORDER, UNION, with the scan at index
\* i: <<token, index after it>>
Compound(sql, token, i) ==
    LET next_start == SkipWs(sql, i)
        up == Upper(token)
    IN  IF up \in {kGROUP, kORDER, kUNION} /\ i <= Len(sql) /\ next_start <= Len(sql)
        THEN IF up = kGROUP /\ HasAtI(sql, next_start, kBY)
             THEN << kGROUP \o <<" ">> \o kBY, next_start + 2 >>
             ELSE IF up = kORDER /\ HasAtI(sql, next_start, kBY)
             THEN << kORDER \o <<" ">> \o kBY, next_start + 2 >>
             ELSE IF up = kUNION /\ HasAtI(sql, next_start, kALL)
             THEN << kUNION \o <<" ">> \o kALL, next_start + 3 >>
             ELSE << token, i >>
        ELSE << token, i >>
\* the while loop, with the scan at index i
RECURSIVE SplitLoop(_, _, _, _)
SplitLoop(sql, i, lines, current_tokens) ==
    LET p == SkipWs(sql, i)
    IN  IF p > Len(sql) THEN Flush(lines, current_tokens)
        ELSE LET read  == ReadToken(sql, p)
                 token == read[1]
             IN  IF token = <<",">> /\ current_tokens # <<>>
                 THEN SplitLoop(sql, read[2], Flush(lines, current_tokens), << <<",">> >>)
                 ELSE IF token = <<";">>
                 THEN SplitLoop(sql, read[2],
                                Append(Flush(lines, current_tokens), <<";">>), <<>>)
                 ELSE IF Upper(token) \in split_keywords \/ StartsWith(token, kDashes)
                 THEN LET c == Compound(sql, token, read[2])
                      IN  SplitLoop(sql, c[2], Flush(lines, current_tokens), <<c[1]>>)
                 ELSE SplitLoop(sql, read[2], lines, Append(current_tokens, token))
split_into_logical_lines(text) ==
    LET sql == Strip(text)
    IN  IF sql = <<>> THEN <<>> ELSE SplitLoop(sql, 1, <<>>, <<>>)

(***************************************************************************)
(* Rendering one line.  self is the formatter: its primary_river_pos,      *)
(* secondary_river_pos, secondary_clauses and cte_structure.               *)
(***************************************************************************)
\* a clause set one column to the right
ClauseLineShifted(pos, clause, remaining) ==
    IF remaining # <<>> THEN Spaces(pos + 1) \o clause \o <<" ">> \o remaining
    ELSE Spaces(pos + 1) \o clause
\* f"{' ' * pos}{clause} {remaining}" if remaining else f"{' ' * pos}{clause}"
ClauseLine(pos, clause, remaining) ==
    IF remaining # <<>> THEN Spaces(pos) \o clause \o <<" ">> \o remaining
    ELSE Spaces(pos) \o clause

\* _format_comment_line
format_comment_line(self, line) ==
    LET comment_content ==
            IF StartsWith(line, kDashes)
            THEN <<"-", "-", " ">> \o From(line, SkipWs(line, 3) - 1)
            ELSE line
        comma == MatchCommentComma(comment_content, 1)
        q     == SkipWs(comment_content, 3)
        kwend == IF StartsWith(comment_content, kDashes)
                 THEN MatchAlternatives(comment_content, q, comment_line_alternatives, 1)
                 ELSE 0
    IN  IF comma # 0
        THEN ClauseLine(self.primary_river_pos - 4, <<"-", "-", " ", ",">>,
                        Strip(From(comment_content, comma - 1)))
        ELSE IF kwend # 0
        THEN LET clause == <<"-", "-", " ">> \o Upper(SubSeq(comment_content, q, kwend - 1))
             IN  ClauseLine(self.primary_river_pos - Len(clause), clause,
                            Strip(From(comment_content, kwend - 1)))
        ELSE ClauseLine(self.primary_river_pos - 2, kDashes,
                        Strip(From(comment_content, 2)))

\* the comma-first branch of _format_line_preserving_tokens, with the comma at
\* river - 2 as its first comment has it
comma_first_at_river_minus_2(self, content) ==
    Spaces(self.primary_river_pos - 2) \o <<",">> \o Spaces(2) \o content
\* the comma-first branch of _format_line_preserving_tokens: comma_pos is
\* river - 1, content_pos is river + 1
comma_first(self, content) ==
    LET comma_pos          == self.primary_river_pos - 1
        content_pos        == self.primary_river_pos + 1
        spaces_after_comma == content_pos - comma_pos - 1
    IN  Spaces(comma_pos) \o <<",">> \o Spaces(spaces_after_comma) \o content
\* _is_case_clause
is_case_clause(line) ==
    \E k \in 1..Len(secondary_clause_patterns) :
        MatchWords(line, 1, secondary_clause_patterns[k]) # 0

\* a subquery test that never fires
never_subquery_line(line) == FALSE
\* _is_subquery_line
is_subquery_line(line) == SearchSubquery(line, kSELECT)

\* _is_case_line
is_case_line(line) ==
    LET line_upper == Upper(Strip(line))
    IN  \/ \E kw \in {kCASE, kWHEN, kTHEN, kELSE, kEND} :
               StartsWith(line_upper, kw \o <<" ">>) \/ line_upper = kw
        \/ MatchWords(line, 1, <<kCASE, kWHEN>>) # 0

\* A match, from index p of a line (no newline in it), of
\*    WHEN\s+.*?)\s+(THEN\s+.*)
\* the index where THEN starts, 0 when there is no match.
MatchWhenThen(line, p) ==
    IF ~HasAtI(line, p, kWHEN) THEN 0
    ELSE LET w == p + 4
             a == SkipWs(line, w)
             ok(t) == /\ HasAtI(line, t, kTHEN)
                      /\ IsSpace(line[t - 1])
                      /\ t + 4 <= Len(line)
                      /\ IsSpace(line[t + 4])
             later == {t \in (a + 1)..Len(line) : ok(t)}
         IN  IF a = w THEN 0
             ELSE IF later # {} THEN MinOf(later)
             ELSE IF a >= w + 2 /\ ok(a) THEN a
             ELSE 0
\* the same for  (CASE\s+WHEN\s+.*?)\s+(THEN\s+.*)
MatchCaseWhenThen(line, p) ==
    IF ~HasAtI(line, p, kCASE) THEN 0
    ELSE LET q == SkipWs(line, p + 4)
         IN  IF q = p + 4 THEN 0 ELSE MatchWhenThen(line, q)
\* the same for  (,\s*CASE\s+WHEN\s+.*?)\s+(THEN\s+.*)  at the start of the line
MatchCommaCaseWhenThen(line) ==
    IF ~StartsWith(line, <<",">>) THEN 0
    ELSE MatchCaseWhenThen(line, SkipWs(line, 2))

\* the first pattern of secondary_clause_patterns that matches at the start
FirstSecondaryPattern(line) ==
    MinOf({k \in 1..Len(secondary_clause_patterns) :
              MatchWords(line, 1, secondary_clause_patterns[k]) # 0})
\* 'SELECT' in secondary_clauses and 'CASE WHEN' in secondary_clauses, with a
\* secondary river and inside a subquery
UseSecondary(self, in_subquery) ==
    /\ in_subquery
    /\ self.secondary_river_pos # 0
    /\ InList(self.secondary_clauses, kSELECT)
    /\ InList(self.secondary_clauses, kCASE \o <<" ">> \o kWHEN)

\* the loop over left_clause_patterns of _format_line_preserving_tokens: the
\* text the first matching pattern matches at the start, <<>> when none does
RECURSIVE FirstLeftClause(_, _)
FirstLeftClause(line, k) ==
    IF k > Len(left_clause_patterns) THEN <<>>
    ELSE IF MatchPattern(line, 1, left_clause_patterns[k]) # 0
    THEN SubSeq(line, 1, MatchPattern(line, 1, left_clause_patterns[k]) - 1)
    ELSE FirstLeftClause(line, k + 1)
\* the same with what follows the loop set one column to the left
format_left_clause_shifted(self, s, in_subquery, clause, otherwise) ==
    IF clause = <<>> THEN Tail(otherwise)
    ELSE ClauseLine(self.primary_river_pos - Len(clause), clause,
                    Strip(From(s, Len(clause))))
\* the body of that loop for the clause matched, and what follows the loop
\* when no pattern matches
format_left_clause(self, s, in_subquery, clause, otherwise) ==
    IF clause = <<>> THEN otherwise
    ELSE LET remaining == Strip(From(s, Len(clause)))
             clause_pos ==
                 IF /\ UseSecondary(self, in_subquery)
                    /\ Upper(clause) \in {kSELECT, kFROM, kWHERE,
                                          kGROUP \o <<" ">> \o kBY,
                                          kORDER \o <<" ">> \o kBY, kHAVING}
                 THEN self.secondary_river_pos - Len(clause)
                 ELSE self.primary_river_pos - Len(clause)
         IN  ClauseLine(clause_pos, clause, remaining)

RECURSIVE format_line_preserving_tokens(_, _, _)
\* _format_case_clause
format_case_clause(self, line) ==
    LET comma_then == MatchCommaCaseWhenThen(line)
        case_then  == MatchCaseWhenThen(line, 1)
        when_then  == MatchWhenThen(line, 1)
        part1(t)   == Strip(SubSeq(line, 1, t - 1))
        part2(t)   == Strip(From(line, t - 1))
    IN  IF comma_then # 0
        THEN Spaces(self.primary_river_pos - 1) \o <<",">> \o Spaces(1)
                 \o Strip(Tail(part1(comma_then))) \o <<" ">> \o part2(comma_then)
        ELSE IF case_then # 0
        THEN Spaces(self.primary_river_pos - 4) \o part1(case_then)
                 \o <<" ">> \o part2(case_then)
        ELSE IF when_then # 0
        THEN Spaces(self.secondary_river_pos - 4) \o part1(when_then)
                 \o <<" ">> \o part2(when_then)
        ELSE IF is_case_clause(line)
        THEN LET clause    == secondary_clause_patterns[FirstSecondaryPattern(line)][1]
                 remaining == Strip(From(line, Len(clause)))
                 clause_pos == IF clause = kCASE
                               THEN self.primary_river_pos - Len(clause)
                               ELSE self.secondary_river_pos - Len(clause)
             IN  ClauseLine(clause_pos, clause, remaining)
        ELSE format_line_preserving_tokens(self, line, FALSE)

\* _format_subquery_line
format_subquery_line(self, line) ==
    IF SearchSubquery(line, kSELECT)
    THEN LET p == MinOf({j \in 1..Len(line) :
                            /\ line[j] = "("
                            /\ MatchWordsFrom(line, SkipWs(line, j + 1), <<kSELECT>>, 1) # 0})
             before_paren   == Strip(SubSeq(line, 1, p - 1))
             select_keyword == kSELECT
             after_select   == Strip(From(line, SkipWs(line, p + 1) + 5))
             before_lines   == IF before_paren # <<>>
                               THEN <<format_line_preserving_tokens(self, before_paren, FALSE)>>
                               ELSE <<>>
             paren_line     == Spaces(self.primary_river_pos + 1) \o <<"(">>
             select_line    ==
                 IF self.secondary_river_pos # 0
                 THEN ClauseLine(self.secondary_river_pos - Len(select_keyword),
                                 select_keyword, after_select)
                 ELSE format_line_preserving_tokens(
                          self,
                          IF after_select # <<>>
                          THEN select_keyword \o <<" ">> \o after_select
                          ELSE select_keyword,
                          FALSE)
         IN  Join(before_lines \o <<paren_line, select_line>>, <<"\n">>)
    ELSE format_line_preserving_tokens(self, line, FALSE)

\* _format_line_preserving_tokens
format_line_preserving_tokens(self, line, in_subquery) ==
    LET s  == Strip(line)
        up == Upper(s)
    IN  IF line = <<>> THEN <<>>
        ELSE IF StartsWith(up, kSELECT \o <<" ">>)
        THEN LET content    == From(s, 7)
                 river_pos  == IF UseSecondary(self, in_subquery)
                               THEN self.secondary_river_pos
                               ELSE self.primary_river_pos
                 select_pos == river_pos - 6
             IN  IF Contains(content, <<",">>)
                 THEN Spaces(select_pos) \o kSELECT \o <<" ">>
                          \o Strip(SplitOn(content, ",")[1])
                 ELSE Spaces(select_pos) \o kSELECT \o <<" ">> \o content
        ELSE IF StartsWith(s, <<",">>)
        THEN comma_first(self, Strip(Tail(s)))
        ELSE IF StartsWith(s, kDashes)
        THEN format_comment_line(self, s)
        ELSE IF is_case_clause(s)
        THEN format_case_clause(self, s)
        ELSE IF is_subquery_line(s)
        THEN format_subquery_line(self, s)
        ELSE format_left_clause(self, s, in_subquery, FirstLeftClause(s, 1),
                 IF StartsWith(up, kAND \o <<" ">>) \/ StartsWith(up, kOR \o <<" ">>)
                 THEN LET parts     == SplitWs(s)
                          operator  == Upper(parts[1])
                          condition == LStrip(From(s, Len(parts[1])))
                      IN  Spaces(self.primary_river_pos - Len(operator)) \o operator
                              \o <<" ">> \o condition
                 ELSE IF s = <<";">>
                 THEN Spaces(self.primary_river_pos + 1) \o <<";">>
                 ELSE Spaces(self.primary_river_pos + 1) \o s)

\* Python's None, as _process_cte_brackets returns it
None == <<"None">>

\* the AS ( branch of _process_cte_brackets once formatted_as is bound:
\* result = [formatted_as], extended when after_paren is not empty
AsBracketLines(formatted_as, after_lines) ==
    IF after_lines # <<>> THEN Join(<<formatted_as>> \o after_lines, <<"\n">>)
    ELSE formatted_as
\* _process_cte_brackets (line_num is not used by the code)
process_cte_brackets(self, line) ==
    LET as_at == {p \in 1..Len(line) :
                     /\ WordBoundary(line, p)
                     /\ HasAtI(line, p, kAS)
                     /\ SkipWs(line, p + 2) <= Len(line)
                     /\ line[SkipWs(line, p + 2)] = "("}
        s == Strip(line)
    IN  IF as_at # {}
        THEN LET p == MinOf(as_at)
                 before_as   == Strip(SubSeq(line, 1, p - 1))
                 as_part     == Strip(SubSeq(line, p, p + 1))
                 after_paren == Strip(From(line, SkipWs(line, p + 2)))
                 as_clause_with_paren ==
                     Strip(before_as \o <<" ">> \o as_part \o <<" ", "(">>)
             IN  AsBracketLines(
                     format_line_preserving_tokens(self, as_clause_with_paren, FALSE),
                     IF after_paren # <<>>
                     THEN <<format_line_preserving_tokens(self, after_paren, FALSE)>>
                     ELSE <<>>)
        ELSE IF s = <<")">>
        THEN Spaces(self.primary_river_pos + 1) \o <<")">>
        ELSE IF EndsWith(s, <<")">>) /\ Len(s) > 1 /\ Strip(SubSeq(s, 1, Len(s) - 1)) # <<>>
        THEN Join(<<format_line_preserving_tokens(self, Strip(SubSeq(s, 1, Len(s) - 1)), FALSE),
                    Spaces(self.primary_river_pos + 1) \o <<")">> >>,
                  <<"\n">>)
        ELSE None

(***************************************************************************)
(* _format_with_river                                                      *)
(***************************************************************************)
\* its first loop: the logical lines of the input
RECURSIVE LogicalLinesOf(_, _)
LogicalLinesOf(input_lines, k) ==
    IF k > Len(input_lines) THEN <<>>
    ELSE (IF StartsWith(Strip(input_lines[k]), kDashes)
          THEN <<Strip(input_lines[k])>>
          ELSE split_into_logical_lines(input_lines[k]))
         \o LogicalLinesOf(input_lines, k + 1)
\* the logical lines of the first input line only
logical_lines_of_first_line(sql) == LogicalLinesOf(<<SplitOn(sql, "\n")[1]>>, 1)
\* the for loop over sql.split('\n')
logical_lines_of(sql) == LogicalLinesOf(SplitOn(sql, "\n"), 1)

\* the next logical line starts with THEN (and a blank), resp. ends with ' THEN'
NextStartsThen(lines, i) ==
    i + 1 <= Len(lines) /\ StartsWith(Upper(Strip(lines[i + 1])), kTHEN \o <<" ">>)
NextEndsThen(lines, i) ==
    i + 1 <= Len(lines) /\ EndsWith(Upper(Strip(lines[i + 1])), <<" ">> \o kTHEN)
\* the first combination pattern alone
CombinesWhenOnly(lines, i) ==
    StartsWith(Upper(Strip(lines[i])), kWHEN \o <<" ">>) /\ NextStartsThen(lines, i)
\* the four WHEN / THEN combination patterns for logical line i
Combines(lines, i) ==
    LET current_upper == Upper(Strip(lines[i]))
    IN  \/ StartsWith(current_upper, kWHEN \o <<" ">>) /\ NextStartsThen(lines, i)
        \/ /\ \/ StartsWith(current_upper, kCASE \o <<" ">> \o kWHEN \o <<" ">>)
              \/ StartsWith(current_upper, <<",", " ">> \o kCASE \o <<" ">> \o kWHEN \o <<" ">>)
           /\ NextStartsThen(lines, i)
        \/ current_upper = kCASE \o <<" ">> \o kWHEN /\ NextEndsThen(lines, i)
        \/ current_upper = kWHEN /\ NextEndsThen(lines, i)

\* a loop that never combines ')' and ';'
CloseParenNeverCombined(lines, i) == FALSE
\* the closing parenthesis followed by semicolon pattern for logical line i
CloseParenThenSemicolon(lines, i) ==
    /\ Strip(lines[i]) = <<")">>
    /\ i + 1 <= Len(lines)
    /\ Strip(lines[i + 1]) = <<";">>

\* a tracking that leaves the flag as it is when the depth falls to zero
TrackParensKeepingFlag(current_line, paren_depth, in_subquery) ==
    LET opened == paren_depth + Count(current_line, "(")
        sub1   == IF Count(current_line, "(") > 0 /\ opened > 0 THEN TRUE ELSE in_subquery
        closed == opened - Count(current_line, ")")
    IN  IF Count(current_line, ")") > 0 /\ closed <= 0
        THEN <<0, sub1>>
        ELSE <<closed, sub1>>
\* the parenthesis tracking of one line: <<paren_depth, in_subquery>> after it
TrackParens(current_line, paren_depth, in_subquery) ==
    LET opened == paren_depth + Count(current_line, "(")
        sub1   == IF Count(current_line, "(") > 0 /\ opened > 0 THEN TRUE ELSE in_subquery
        closed == opened - Count(current_line, ")")
    IN  IF Count(current_line, ")") > 0 /\ closed <= 0
        THEN <<0, FALSE>>
        ELSE <<closed, sub1>>

\* the lines appended for a logical line: those of bracket_result when
\* _process_cte_brackets returned one, the formatted line otherwise
BracketOrLine(bracket_result, formatted) ==
    IF bracket_result = None THEN <<formatted>>
    ELSE SplitOn(bracket_result, "\n")

\* One iteration of the while loop, at logical line i (1-based): what it appends
\* to formatted_lines, how many logical lines it consumes, and the parenthesis
\* context it leaves.
render_iteration(self, lines, i, paren_depth, in_subquery) ==
    LET logical_line == lines[i]
        s       == Strip(logical_line)
        tracked == TrackParens(s, paren_depth, in_subquery)
        same    == [out |-> <<>>, consumed |-> 1,
                    paren_depth |-> paren_depth, in_subquery |-> in_subquery]
        after   == [same EXCEPT !.paren_depth = tracked[1], !.in_subquery = tracked[2]]
    IN  IF s = <<>>
        THEN [same EXCEPT !.out = << <<>> >>]
        ELSE IF Combines(lines, i)
        THEN [same EXCEPT !.out = <<format_case_clause(
                                      self, s \o <<" ">> \o Strip(lines[i + 1]))>>,
                          !.consumed = 2]
        ELSE IF CloseParenThenSemicolon(lines, i)
        THEN [after EXCEPT !.out = <<Spaces(self.primary_river_pos + 1) \o <<")", ";">> >>,
                           !.consumed = 2]
        ELSE [after EXCEPT !.out =
                 BracketOrLine(process_cte_brackets(self, s),
                               IF is_case_line(s) THEN format_case_clause(self, s)
                               ELSE format_line_preserving_tokens(self, s, in_subquery))]

\* _insert_cte_blank_lines
NextNonEmpty(formatted_lines, i) ==
    LET later == {j \in (i + 1)..Len(formatted_lines) : Strip(formatted_lines[j]) # <<>>}
    IN  IF later = {} THEN <<>> ELSE formatted_lines[MinOf(later)]
EndsCte(self, formatted_lines, i) ==
    LET line == formatted_lines[i]
        stripped_next == LStrip(NextNonEmpty(formatted_lines, i))
    IN  /\ Strip(line) = <<")">>
        /\ Len(line) - Len(LStrip(line)) = self.primary_river_pos + 1
        /\ stripped_next # <<>>
        /\ \/ StartsWith(stripped_next, <<",">>)
           \/ \E clause \in {kSELECT, kINSERT, kUPDATE, kDELETE} :
                  StartsWith(Upper(stripped_next), clause)
RECURSIVE InsertBlankLines(_, _, _)
InsertBlankLines(self, formatted_lines, i) ==
    IF i > Len(formatted_lines) THEN <<>>
    ELSE (IF EndsCte(self, formatted_lines, i)
          THEN <<formatted_lines[i], <<>> >>
          ELSE <<formatted_lines[i]>>)
         \o InsertBlankLines(self, formatted_lines, i + 1)
\* a pass that does not look at the CTE inventory
insert_blank_lines_always(self, formatted_lines) ==
    InsertBlankLines(self, formatted_lines, 1)
insert_cte_blank_lines(self, formatted_lines) ==
    IF Len(self.cte_structure) <= 1 THEN formatted_lines
    ELSE InsertBlankLines(self, formatted_lines, 1)

\* verify_river_lines
is_case_context(line) ==
    \E kw \in {kWHEN, kTHEN, kELSE, kEND} : Contains(Upper(line), kw \o <<" ">>)
verify_river_lines(self, formatted_sql) ==
    LET lines == SplitOn(formatted_sql, "\n")
    IN  \A k \in 1..Len(lines) :
            Len(lines[k]) > self.primary_river_pos
                => \/ lines[k][self.primary_river_pos + 1] = " "
                   \/ is_case_context(lines[k])
\* str(n) for a natural number n, one character to an element
RECURSIVE DecimalOf(_)
DecimalOf(n) ==
    LET digit == <<"0", "1", "2", "3", "4", "5", "6", "7", "8", "9">>[(n % 10) + 1]
    IN  IF n < 10 THEN <<digit>> ELSE DecimalOf(n \div 10) \o <<digit>>
\* the three print calls verify_river_lines makes for line line_num before it
\* returns False: print without a file argument, so to standard output.  A
\* printed text is the concatenation of the strings of its sequence.
RiverFailurePrints(self, lines, line_num) ==
    << <<"River line verification failed at line ">> \o DecimalOf(line_num),
       <<"Expected space at position ">> \o DecimalOf(self.primary_river_pos)
           \o <<", found: '", lines[line_num][self.primary_river_pos + 1], "'">>,
       <<"Line: '">> \o lines[line_num] \o <<"'">> >>
\* the line numbers at which verify_river_lines fails
RiverFailures(self, lines) ==
    {k \in 1..Len(lines) :
        /\ Len(lines[k]) > self.primary_river_pos
        /\ lines[k][self.primary_river_pos + 1] # " "
        /\ ~is_case_context(lines[k])}
\* what verify_river_lines prints for formatted_sql
verify_river_lines_prints(self, formatted_sql) ==
    IF RiverFailures(self, SplitOn(formatted_sql, "\n")) = {} THEN <<>>
    ELSE RiverFailurePrints(self, SplitOn(formatted_sql, "\n"),
                            MinOf(RiverFailures(self, SplitOn(formatted_sql, "\n"))))

(***************************************************************************)
(* The formatter as a state machine                                        *)
(*                                                                         *)
(* One RiverFormatter object, on which format_sql and verify_river_lines   *)
(* are called.  format_sql runs step by step: the analysis phase (steps 1  *)
(* to 4 of format_sql), then _format_with_river, one iteration of its      *)
(* while loop per step.                                                    *)
(***************************************************************************)
VARIABLES
    sql,                  \* the argument of the running format_sql call
    primary_river_pos,    \* the formatter's fields
    secondary_river_pos,
    left_clauses,
    secondary_clauses,
    cte_structure,
    logical_lines,        \* the locals of _format_with_river
    formatted_lines,
    i,                    \* index of the next logical line (1-based)
    paren_depth,
    in_subquery,
    result,               \* what the last format_sql call returned
    verified,             \* what verify_river_lines returned for it
    previous,             \* what the format_sql call before the last returned
    calls,                \* the number of format_sql calls made
    stdout,               \* the texts printed to standard output, in order
    stderr,               \* the texts printed to sys.stderr, in order
    pc

fields == <<primary_river_pos, secondary_river_pos, left_clauses,
            secondary_clauses, cte_structure>>
locals == <<logical_lines, formatted_lines, i, paren_depth, in_subquery>>
streams == <<stdout, stderr>>
vars == <<sql, fields, locals, result, verified, previous, calls, streams, pc>>

self == [primary_river_pos |-> primary_river_pos,
         secondary_river_pos |-> secondary_river_pos,
         secondary_clauses |-> secondary_clauses,
         cte_structure |-> cte_structure]

\* the number of format_sql calls made on one formatter
MaxCalls == 2
\* the number of statements of an input document
MaxStatements == 2
\* the statements that are paired with each other
MaxPaired == 12

\* the statements the input documents are made of
Statements ==
    << \* SELECT a, b FROM t WHERE x = 1
       kSELECT \o <<" ", "a", ",", " ", "b", " ">> \o kFROM \o <<" ", "t", " ">>
           \o kWHERE \o <<" ", "x", " ", "=", " ", "1">>,
       \* FROM t
       kFROM \o <<" ", "t">>,
       \* a comment line, two blanks inside its keyword: --GROUP  BY x
       kDashes \o kGROUP \o <<" ", " ">> \o kBY \o <<" ", "x">>,
       \* GROUP BYTES
       kGROUP \o <<" ">> \o kBY \o <<"T", "E", "S">>,
       \* a comma-first CASE WHEN line and its THEN line
       kSELECT \o <<" ", "a", "\n", ",", " ">> \o kCASE \o <<" ">> \o kWHEN
           \o <<" ", "x", "\n">> \o kTHEN \o <<" ", "1", " ">> \o kEND,
       \* a CASE expression, one keyword to a line
       kCASE \o <<"\n">> \o kWHEN \o <<" ", "x", "\n">> \o kTHEN \o <<" ", "1", "\n">>
           \o kELSE \o <<" ", "0", "\n">> \o kEND,
       \* the same expression on one line: CASE WHEN x THEN 1 ELSE 0 END
       kCASE \o <<" ">> \o kWHEN \o <<" ", "x", " ">> \o kTHEN \o <<" ", "1", " ">>
           \o kELSE \o <<" ", "0", " ">> \o kEND,
       \* SELECT a FROM (SELECT b FROM t2) x
       kSELECT \o <<" ", "a", " ">> \o kFROM \o <<" ", "(">> \o kSELECT
           \o <<" ", "b", " ">> \o kFROM \o <<" ", "t", "2", ")", " ", "x">>,
       \* FROM ( SELECT b ) x
       kFROM \o <<" ", "(", " ">> \o kSELECT \o <<" ", "b", " ", ")", " ", "x">>,
       \* x (FROM t)
       <<"x", " ", "(">> \o kFROM \o <<" ", "t", ")">>,
       \* an ELSE line and a THEN line that follows no WHEN line
       kELSE \o <<" ", "0", "\n">> \o kTHEN \o <<" ", "1">>,
       \* a lower-case operator that ends its line, and a plain line: WHERE a or / b
       kWHERE \o <<" ", "a", " ", "o", "r", "\n", "b">>,
       \* closing parentheses on lines of their own, the second before a semicolon
       <<"(", "\n", ")", "\n", "x", " ", "(", "\n", ")", "\n", ";">>,
       \* a comment line that ends in a parenthesis, and a WHEN line before a
       \* THEN that stands alone
       kDashes \o <<" ", "(", "x", ")", "\n">> \o kWHEN \o <<" ", "x", "\n">> \o kTHEN,
       \* a common table expression on one line: WITH c AS (SELECT 1)
       kWITH \o <<" ", "c", " ">> \o kAS \o <<" ", "(">> \o kSELECT \o <<" ", "1", ")">>,
       \* a common table expression and its main query, the parentheses on the
       \* lines of WITH and after the body: WITH c AS ( / SELECT 1 / ) / SELECT 2
       kWITH \o <<" ", "c", " ">> \o kAS \o <<" ", "(", "\n">> \o kSELECT
           \o <<" ", "1", "\n", ")", "\n">> \o kSELECT \o <<" ", "2">>,
       \* the same expression before a DELETE statement
       kWITH \o <<" ", "c", " ">> \o kAS \o <<" ", "(", "\n">> \o kSELECT
           \o <<" ", "1", "\n", ")", "\n">> \o kDELETE \o <<" ">> \o kFROM \o <<" ", "t">>,
       \* SELECT DISTINCT a FROM t JOIN u
       kSELECT \o <<" ">> \o kDISTINCT \o <<" ", "a", " ">> \o kFROM \o <<" ", "t", " ">>
           \o kJOIN \o <<" ", "u">>,
       \* a parenthesis closed on the THEN line of a CASE expression:
       \* SELECT (CASE / WHEN a / THEN 1 END) / FROM t
       kSELECT \o <<" ", "(">> \o kCASE \o <<"\n">> \o kWHEN \o <<" ", "a", "\n">>
           \o kTHEN \o <<" ", "1", " ">> \o kEND \o <<")", "\n">> \o kFROM \o <<" ", "t">>,
       \* a comment in the middle of a line: x --y, z
       <<"x", " ">> \o kDashes \o <<"y", ",", " ", "z">> >>
\* statements joined by a semicolon and a newline
RECURSIVE JoinStatements(_)
JoinStatements(stmts) ==
    IF Len(stmts) = 1 THEN stmts[1]
    ELSE stmts[1] \o <<";", "\n">> \o JoinStatements(Tail(stmts))
RECURSIVE SeqsUpTo(_, _)
SeqsUpTo(S, n) ==
    IF n = 0 THEN {<<>>}
    ELSE LET shorter == SeqsUpTo(S, n - 1)
         IN  shorter \cup {Append(q, x) : q \in shorter, x \in S}
\* empty and whitespace-only inputs
BlankInputs == {<<>>, <<" ">>, <<" ", "\n">>}
\* the input documents: every statement, every ordered pair of the first
\* MaxPaired statements, and the longer sequences of the two shortest statements
Documents ==
    {JoinStatements(q) :
        q \in {<<Statements[k]>> : k \in 1..(IF MaxStatements < 1 THEN 0 ELSE Len(Statements))}
              \cup {r \in SeqsUpTo({Statements[k] : k \in 1..MinOf({MaxPaired, Len(Statements)})},
                                   IF MaxStatements < 2 THEN MaxStatements ELSE 2) :
                       r # <<>>}
              \cup {r \in SeqsUpTo({Statements[2], Statements[3]}, MaxStatements) :
                       Len(r) > 2}}

\* RiverFormatter.__init__, and the first input
Init ==
    /\ sql \in Documents \cup BlankInputs
    /\ primary_river_pos = 0
    /\ secondary_river_pos = 0
    /\ left_clauses = <<>>
    /\ secondary_clauses = <<>>
    /\ cte_structure = <<>>
    /\ logical_lines = <<>>
    /\ formatted_lines = <<>>
    /\ i = 1
    /\ paren_depth = 0
    /\ in_subquery = FALSE
    /\ result = None
    /\ verified = None
    /\ previous = None
    /\ calls = 1
    /\ stdout = <<>>
    /\ stderr = <<>>
    /\ pc = "format_sql"

\* a blank input returned stripped
ReturnBlankStripped ==
    /\ pc = "format_sql"
    /\ Strip(sql) = <<>>
    /\ result' = Strip(sql)
    /\ pc' = "returned"
    /\ UNCHANGED <<sql, fields, locals, verified, previous, calls, streams>>
\* format_sql on an empty or whitespace-only input: return sql
ReturnBlank ==
    /\ pc = "format_sql"
    /\ Strip(sql) = <<>>
    /\ result' = sql
    /\ pc' = "returned"
    /\ UNCHANGED <<sql, fields, locals, verified, previous, calls, streams>>

\* Step 1: _analyze_cte_structure
AnalyzeCteStructure ==
    /\ pc = "format_sql"
    /\ Strip(sql) # <<>>
    /\ cte_structure' = analyze_cte_structure(sql)
    /\ pc' = "extract_left"
    /\ UNCHANGED <<sql, primary_river_pos, secondary_river_pos, left_clauses,
                   secondary_clauses, locals, result, verified, previous, calls, streams>>

\* Step 2: _extract_all_left_clauses
ExtractAllLeftClauses ==
    /\ pc = "extract_left"
    /\ left_clauses' = extract_all_left_clauses(sql)
    /\ pc' = "extract_secondary"
    /\ UNCHANGED <<sql, primary_river_pos, secondary_river_pos, secondary_clauses,
                   cte_structure, locals, result, verified, previous, calls, streams>>

\* Step 3: _extract_secondary_clauses
ExtractSecondaryClauses ==
    /\ pc = "extract_secondary"
    /\ secondary_clauses' = extract_secondary_clauses(sql)
    /\ pc' = "primary_river"
    /\ UNCHANGED <<sql, primary_river_pos, secondary_river_pos, left_clauses,
                   cte_structure, locals, result, verified, previous, calls, streams>>

\* Step 4: _calculate_primary_river, _calculate_secondary_river
CalculatePrimaryRiver ==
    /\ pc = "primary_river"
    /\ primary_river_pos' = calculate_primary_river(left_clauses)
    /\ pc' = "secondary_river"
    /\ UNCHANGED <<sql, secondary_river_pos, left_clauses, secondary_clauses,
                   cte_structure, locals, result, verified, previous, calls, streams>>
CalculateSecondaryRiver ==
    /\ pc = "secondary_river"
    /\ secondary_river_pos' =
           calculate_secondary_river(primary_river_pos, secondary_clauses)
    /\ pc' = "split"
    /\ UNCHANGED <<sql, primary_river_pos, left_clauses, secondary_clauses,
                   cte_structure, locals, result, verified, previous, calls, streams>>

\* Step 5, _format_with_river: the logical lines and the loop's initial state
SplitLogicalLines ==
    /\ pc = "split"
    /\ logical_lines' = logical_lines_of(sql)
    /\ formatted_lines' = <<>>
    /\ i' = 1
    /\ paren_depth' = 0
    /\ in_subquery' = FALSE
    /\ pc' = "render"
    /\ UNCHANGED <<sql, fields, result, verified, previous, calls, streams>>

\* an iteration that calculates the primary river again, from the line it renders
RenderLineRecalculating ==
    /\ pc = "render"
    /\ i <= Len(logical_lines)
    /\ \E step \in {render_iteration(self, logical_lines, i, paren_depth, in_subquery)} :
           /\ formatted_lines' = formatted_lines \o step.out
           /\ i' = i + step.consumed
           /\ paren_depth' = step.paren_depth
           /\ in_subquery' = step.in_subquery
    /\ primary_river_pos' = calculate_primary_river(extract_all_left_clauses(logical_lines[i]))
    /\ UNCHANGED <<sql, secondary_river_pos, left_clauses, secondary_clauses,
                   cte_structure, logical_lines, result, verified, previous,
                   calls, streams, pc>>
\* one iteration of the while loop
RenderLine ==
    /\ pc = "render"
    /\ i <= Len(logical_lines)
    /\ \E step \in {render_iteration(self, logical_lines, i, paren_depth, in_subquery)} :
           /\ formatted_lines' = formatted_lines \o step.out
           /\ i' = i + step.consumed
           /\ paren_depth' = step.paren_depth
           /\ in_subquery' = step.in_subquery
    /\ UNCHANGED <<sql, fields, logical_lines, result, verified, previous, calls, streams, pc>>

\* after the loop: _insert_cte_blank_lines, and the joined text is returned
ReturnFormatted ==
    /\ pc = "render"
    /\ i > Len(logical_lines)
    /\ formatted_lines' = insert_cte_blank_lines(self, formatted_lines)
    /\ result' = Join(formatted_lines', <<"\n">>)
    /\ pc' = "returned"
    /\ UNCHANGED <<sql, fields, logical_lines, i, paren_depth, in_subquery,
                   verified, previous, calls, streams>>

\* verify_river_lines on the returned text, as main() calls it
VerifyRiverLines ==
    /\ pc = "returned"
    /\ verified' = verify_river_lines(self, result)
    /\ stdout' = stdout \o verify_river_lines_prints(self, result)
    /\ pc' = "verified"
    /\ UNCHANGED <<sql, fields, locals, result, previous, calls, stderr>>

\* the rest of main() after its calls of format_sql and verify_river_lines:
\* the warning on sys.stderr when the verification failed, and print(formatted).
\* main() calls format_sql once, and only for an input that is not blank (for
\* a blank one it exits before the call); its except branch is not taken, as
\* no step of format_sql raises.
PrintFormatted ==
    /\ pc = "verified"
    /\ calls = 1
    /\ Strip(sql) # <<>>
    /\ stderr' = IF verified THEN stderr
                 ELSE Append(stderr, <<"Warning: River line verification failed">>)
    /\ stdout' = Append(stdout, result)
    /\ pc' = "printed"
    /\ UNCHANGED <<sql, fields, locals, result, verified, previous, calls>>

\* format_sql called again on the same formatter: with the text it returned,
\* or with a blank input
FormatAgain ==
    /\ pc = "verified"
    /\ calls < MaxCalls
    /\ sql' \in {result} \cup BlankInputs
    /\ previous' = result
    /\ calls' = calls + 1
    /\ pc' = "format_sql"
    /\ UNCHANGED <<fields, locals, result, verified, streams>>

Next ==
    \/ ReturnBlank
    \/ AnalyzeCteStructure
    \/ ExtractAllLeftClauses
    \/ ExtractSecondaryClauses
    \/ CalculatePrimaryRiver
    \/ CalculateSecondaryRiver
    \/ SplitLogicalLines
    \/ RenderLine
    \/ ReturnFormatted
    \/ VerifyRiverLines
    \/ PrintFormatted
    \/ FormatAgain

Spec == Init /\ [][Next]_vars


(***************************************************************************)
(* The properties.                                                         *)
(***************************************************************************)
\* control points of a format_sql call on a non-blank input at which the
\* primary river, resp. both rivers, have been calculated
AfterPrimary ==
    /\ pc \in {"secondary_river", "split", "render", "returned", "verified"}
    /\ Strip(sql) # <<>>
AfterAnalysis ==
    /\ pc \in {"split", "render", "returned", "verified"}
    /\ Strip(sql) # <<>>
\* format_sql has just returned the formatted text of a non-blank input
Returned == pc = "returned" /\ Strip(sql) # <<>>
\* the lines of a text
LinesOf(text) == SplitOn(text, "\n")
\* line has the word kw (any letter case) ending at column river, and only
\* blanks before it
RightAligned(line, kw, river) ==
    /\ Len(line) >= river
    /\ \A j \in 1..(river - Len(kw)) : line[j] = " "
    /\ HasAtI(line, river - Len(kw) + 1, kw)
\* the primary river a fresh formatter calculates for the text x alone
PrimaryOf(x) == calculate_primary_river(extract_all_left_clauses(x))
\* the places where a semicolon and a newline separate two non-blank parts
Separators(text) ==
    {p \in 1..(Len(text) - 1) :
        /\ text[p] = ";" /\ text[p + 1] = "\n"
        /\ Strip(SubSeq(text, 1, p - 1)) # <<>>
        /\ Strip(From(text, p + 1)) # <<>>}

\* C1: after format_sql on a non-blank document the primary river is 7 + the
\* greatest length of the recognized clause texts, each taken with its inner
\* whitespace collapsed to single blanks, and 7 when no clause text is recognized.
C1_PrimaryRiverFormula ==
    AfterPrimary =>
        primary_river_pos =
            IF left_clauses = <<>> THEN 7
            ELSE 7 + MaxOf({Len(NormalizeWs(left_clauses[k])) :
                               k \in 1..Len(left_clauses)})

\* C2: a document of two statements separated by a semicolon and a newline gets
\* one primary river, the larger of the rivers the two statements get alone: it
\* is the river when it has been calculated, and still when the text is returned.
C2_SharedPrimaryRiver ==
    (pc \in {"secondary_river", "returned"} /\ Strip(sql) # <<>>) =>
        \A p \in Separators(sql) :
            LET A == PrimaryOf(SubSeq(sql, 1, p - 1))
                B == PrimaryOf(From(sql, p + 1))
            IN  primary_river_pos = IF A >= B THEN A ELSE B
\* a document whose first statement alone gets the smaller river, formatted with
\* the river of its second statement
C2_Witness ==
    /\ pc = "render"
    /\ calls = 1
    /\ \E p \in Separators(sql) :
           /\ PrimaryOf(SubSeq(sql, 1, p - 1)) < PrimaryOf(From(sql, p + 1))
           /\ primary_river_pos = PrimaryOf(From(sql, p + 1))

\* C3: verify_river_lines(format_sql(x)) is True for every input x: every
\* output line without a CASE marker is no longer than the primary river or
\* has a blank at index primary.
C3_RiverColumnPurity ==
    pc = "verified" => verified = TRUE


\* the render loop is about to render logical line i
Rendering == pc = "render" /\ i <= Len(logical_lines)
\* the output lines the iteration being taken appends
NewLines ==
    LinesOf(Join(SubSeq(formatted_lines', Len(formatted_lines) + 1,
                        Len(formatted_lines')), <<"\n">>))
\* line has its comma at column river - 1 after blanks only, and what follows
\* the comma starts at column river + 1, after exactly one blank
CommaFirst(line, river) ==
    /\ Len(line) >= river
    /\ \A j \in 1..(river - 1) : line[j] = " "
    /\ line[river] = ","
    /\ Strip(From(line, river)) # <<>> =>
           /\ Len(line) >= river + 2
           /\ line[river + 1] = " "
           /\ ~IsSpace(line[river + 2])

\* C4: the rendered line of a logical line that starts with a comma, a comma-first
\* CASE WHEN line merged with its THEN line included, has the comma at column
\* primary - 1 and its content from column primary + 1, one blank after the comma.
C4_CommaAlignment ==
    [][(Rendering /\ StartsWith(Strip(logical_lines[i]), <<",">>))
           => CommaFirst(NewLines[1], primary_river_pos)]_vars
\* a comma-first CASE WHEN line has been merged with its THEN line and rendered,
\* content after the comma
C4_Witness ==
    /\ pc = "render"
    /\ i > 2
    /\ StartsWith(logical_lines[i - 2], <<",">>)
    /\ Combines(logical_lines, i - 2)
    /\ \E k \in 1..Len(formatted_lines) :
           /\ CommaFirst(formatted_lines[k], primary_river_pos)
           /\ Contains(formatted_lines[k], kTHEN)

\* C5: on an empty or whitespace-only input format_sql returns the input
\* unchanged, the input has no logical line, and the river positions and the
\* clause inventories of the formatter stay as they were.
C5_BlankInputUnchanged ==
    [][(pc = "format_sql" /\ Strip(sql) = <<>>)
           => /\ result' = sql
              /\ pc' = "returned"
              /\ split_into_logical_lines(sql) = <<>>
              /\ UNCHANGED fields]_vars
\* a whitespace-only input returned by a formatter that had formatted a document
\* before, its rivers and inventories still those of that document
C5_Witness ==
    /\ pc = "returned"
    /\ calls = 2
    /\ sql # <<>>
    /\ Strip(sql) = <<>>
    /\ result = sql
    /\ primary_river_pos >= 7
    /\ left_clauses # <<>>


\* The projected items after the first comma of the SELECT lists written on one
\* input line: for a line that starts with SELECT and a blank, the first word
\* of each comma-separated part after the first.
ListedItems(text) ==
    LET lines == LinesOf(text)
        parts(n) == SplitOn(From(Strip(lines[n]), 7), ",")
        selects == {n \in 1..Len(lines) :
                       StartsWith(Upper(Strip(lines[n])), kSELECT \o <<" ">>)}
        later(n) == {m \in 2..Len(parts(n)) : SplitWs(parts(n)[m]) # <<>>}
    IN  UNION {{SplitWs(parts(n)[m])[1] : m \in later(n)} : n \in selects}
\* line is the comma-continuation line of item at the river
ContinuationOf(line, item, river) ==
    /\ CommaFirst(line, river)
    /\ HasAt(line, river + 2, item)
    /\ Len(line) > river + 1 + Len(item) => IsSpace(line[river + 2 + Len(item)])
\* text has a line that starts with SELECT, followed by a line that starts
\* with a comma
HasSelectList(text) ==
    LET lines == LinesOf(text)
    IN  \E n \in 1..(Len(lines) - 1) :
            /\ StartsWith(Upper(Strip(lines[n])), kSELECT \o <<" ">>)
            /\ StartsWith(Strip(lines[n + 1]), <<",">>)

\* C6 as stated: of a SELECT list written on one line only the text before the
\* first comma is kept, and no item after the first comma is in the output,
\* not even on a continuation line.
C6_ItemsAfterFirstCommaDropped ==
    (Returned /\ calls = 1) =>
        \A item \in ListedItems(sql) :
            \A n \in 1..Len(LinesOf(result)) :
                ~ContinuationOf(LinesOf(result)[n], item, primary_river_pos)
\* C6 amended: of a SELECT list written on one line the text before the first
\* comma stays on the SELECT line and every item after the first comma is
\* rendered on a comma-continuation line of its own, below the SELECT line,
\* the comma at column primary - 1 and the item from column primary + 1.
C6_ItemsOnContinuationLines ==
    (Returned /\ calls = 1) =>
        \A item \in ListedItems(sql) :
            \E n \in 2..Len(LinesOf(result)) :
                /\ ContinuationOf(LinesOf(result)[n], item, primary_river_pos)
                /\ \E m \in 1..(n - 1) :
                       /\ RightAligned(LinesOf(result)[m], kSELECT, primary_river_pos)
                       /\ \A j \in (m + 1)..n : StartsWith(Strip(LinesOf(result)[j]), <<",">>)
\* the text returned for a document with a two-item SELECT list on one line
C6_Witness ==
    /\ Returned
    /\ calls = 1
    /\ ListedItems(sql) # {}
    /\ HasSelectList(result)

\* C7 as stated: feeding the output for a multi-item SELECT list back into
\* format_sql loses projected items, so the second output differs from the first.
C7_RefeedDiffers ==
    (Returned /\ calls = 2 /\ sql = previous /\ HasSelectList(previous))
        => result # previous
\* C7 amended: feeding the output for a multi-item SELECT list back into
\* format_sql loses no projected item: each comma-continuation line below a
\* SELECT line of the first output is, with the same content, a
\* comma-continuation line below that SELECT line in the second output.
C7_RefeedKeepsItems ==
    (Returned /\ calls = 2 /\ sql = previous /\ HasSelectList(previous)) =>
        LET before == LinesOf(previous)
            after  == LinesOf(result)
        IN  \A n \in 1..(Len(before) - 1) :
                (/\ StartsWith(Upper(Strip(before[n])), kSELECT \o <<" ">>)
                 /\ StartsWith(Strip(before[n + 1]), <<",">>))
                => \E m \in 1..(Len(after) - 1) :
                       /\ Strip(after[m]) = Strip(before[n])
                       /\ Strip(after[m + 1]) = Strip(before[n + 1])
                       /\ CommaFirst(after[m + 1], primary_river_pos)
\* the output for a multi-item SELECT list has been formatted again
C7_Witness ==
    /\ Returned
    /\ calls = 2
    /\ sql = previous
    /\ HasSelectList(previous)
    /\ HasSelectList(result)

CaseRiver(kw) == IF kw = kCASE THEN primary_river_pos ELSE secondary_river_pos
\* the places of the output where the word kw stands: <<line, column>>
Occurrences(text, kw) ==
    LET lines == LinesOf(text)
    IN  UNION {{<<n, p>> : p \in {q \in 1..Len(lines[n]) :
                                     MatchWords(lines[n], q, <<kw>>) # 0}} :
               n \in 1..Len(lines)}
\* THEN stands at column p of line n of the output and no WHEN comes before it
\* on that line
Unmerged(text, n, p) ==
    \A q \in 1..(p - 1) : MatchWords(LinesOf(text)[n], q, <<kWHEN>>) = 0

\* C9 as stated: in the output for a document with a CASE expression, written
\* on one line or on several, CASE ends at the primary river and each WHEN, ELSE,
\* END and THEN not merged onto a WHEN line ends at the secondary river, which
\* is primary + 10.
C9_CaseKeywordsAtRivers ==
    (Returned /\ calls = 1 /\ SearchWords(sql, <<kCASE, kWHEN>>)) =>
        /\ secondary_river_pos = primary_river_pos + 10
        /\ \A kw \in {kCASE, kWHEN, kELSE, kEND} :
               \A o \in Occurrences(result, kw) :
                   RightAligned(LinesOf(result)[o[1]], kw, CaseRiver(kw))
        /\ \A o \in Occurrences(result, kTHEN) :
               Unmerged(result, o[1], o[2]) =>
                   RightAligned(LinesOf(result)[o[1]], kTHEN, secondary_river_pos)
\* C9 amended: a logical line that begins with a CASE-family keyword is rendered
\* with that keyword right-aligned, CASE to the primary river and WHEN, ELSE, END
\* and a THEN not merged onto a WHEN line to the secondary river, which is
\* primary + 10 when the document has a CASE WHEN fragment; the keywords that
\* follow on the same logical line stay where they are written.
C9_LeadingCaseKeywordAtRiver ==
    [][Rendering =>
          \A kw \in {kCASE, kWHEN, kTHEN, kELSE, kEND} :
              MatchWords(Strip(logical_lines[i]), 1, <<kw>>) # 0 =>
                  /\ RightAligned(NewLines[1], kw, CaseRiver(kw))
                  /\ SearchWords(sql, <<kCASE, kWHEN>>) =>
                         secondary_river_pos = primary_river_pos + 10]_vars
\* in a document with a CASE WHEN fragment, a THEN line that follows no WHEN
\* line has been rendered at the secondary river
C9_Witness ==
    /\ pc = "render"
    /\ calls = 1
    /\ SearchWords(sql, <<kCASE, kWHEN>>)
    /\ i > 2
    /\ StartsWith(logical_lines[i - 1], kTHEN)
    /\ StartsWith(logical_lines[i - 2], kELSE)
    /\ RightAligned(formatted_lines[Len(formatted_lines)], kTHEN, primary_river_pos + 10)

\* '(' and SELECT follow each other in line without whitespace, at index p
OpensSelect(line, p) ==
    /\ p < Len(line)
    /\ line[p] = "("
    /\ MatchWordsFrom(line, p + 1, <<kSELECT>>, 1) # 0
\* line has the pattern \bAS\s*\(
HasAsParen(line) ==
    \E p \in 1..Len(line) :
        /\ MatchWords(line, p, <<kAS>>) # 0
        /\ SkipWs(line, p + 2) <= Len(line)
        /\ line[SkipWs(line, p + 2)] = "("
\* line begins as an ordinary clause or content line: not with SELECT, a
\* comma, a comment marker or a CASE-family keyword
OrdinaryStart(line) ==
    /\ ~StartsWith(Upper(line), kSELECT \o <<" ">>)
    /\ ~StartsWith(line, <<",">>)
    /\ ~StartsWith(line, kDashes)
    /\ \A kw \in {kCASE, kWHEN, kTHEN, kELSE, kEND} : MatchWords(line, 1, <<kw>>) = 0

\* C10 as stated: for every fragment '(' + optional whitespace + SELECT, FROM or
\* WHERE of the document the output has the parenthesis alone on a line at
\* column primary + 1 and, on the next line, the keyword right-aligned to the
\* secondary river.
C10_SubqueryFragmentsSplit ==
    (Returned /\ calls = 1) =>
        \A kw \in {kSELECT, kFROM, kWHERE} :
            SearchSubquery(sql, kw) =>
                \E n \in 1..(Len(LinesOf(result)) - 1) :
                    /\ LinesOf(result)[n] = Spaces(primary_river_pos + 1) \o <<"(">>
                    /\ RightAligned(LinesOf(result)[n + 1], kw, secondary_river_pos)
\* C10 amended: a logical line in which '(' is directly followed by SELECT, that
\* begins neither with SELECT, a comma, a comment marker nor a CASE-family
\* keyword and has no 'AS (', is rendered as: the text before the first such
\* parenthesis on a line of its own (when there is any), the parenthesis alone
\* at column primary + 1, and SELECT right-aligned to the secondary river,
\* which is primary + 10.  '(' followed by whitespace and SELECT, and '('
\* followed by FROM or WHERE, are not split off.
C10_ParenSelectSplit ==
    [][(/\ Rendering
        /\ ~Combines(logical_lines, i)
        /\ OrdinaryStart(Strip(logical_lines[i]))
        /\ ~HasAsParen(Strip(logical_lines[i]))
        /\ \E p \in 1..Len(Strip(logical_lines[i])) :
               OpensSelect(Strip(logical_lines[i]), p))
       => LET line   == Strip(logical_lines[i])
              p      == MinOf({q \in 1..Len(line) : OpensSelect(line, q)})
              before == Strip(SubSeq(line, 1, p - 1))
              n      == IF before = <<>> THEN 1 ELSE 2
          IN  /\ Len(NewLines) >= n + 1
              /\ before # <<>> => Strip(NewLines[1]) = before
              /\ NewLines[n] = Spaces(primary_river_pos + 1) \o <<"(">>
              /\ RightAligned(NewLines[n + 1], kSELECT, secondary_river_pos)
              /\ secondary_river_pos = primary_river_pos + 10]_vars
\* FROM (SELECT b has been rendered: FROM, the parenthesis at primary + 1, and
\* SELECT at the secondary river
C10_Witness ==
    /\ pc = "render"
    /\ i > 1
    /\ OpensSelect(logical_lines[i - 1], 6)
    /\ StartsWith(logical_lines[i - 1], kFROM)
    /\ LET lines == LinesOf(formatted_lines[Len(formatted_lines)])
       IN  /\ Len(lines) = 3
           /\ RightAligned(lines[1], kFROM, primary_river_pos)
           /\ lines[2] = Spaces(primary_river_pos + 1) \o <<"(">>
           /\ RightAligned(lines[3], kSELECT, secondary_river_pos)


\* a format_sql call is running
Running ==
    pc \in {"format_sql", "extract_left", "extract_secondary", "primary_river",
            "secondary_river", "split", "render"}
\* line matches none of the specific rendering rules: it begins neither with
\* SELECT, a comma, a comment marker, a CASE-family keyword, a clause keyword,
\* AND nor OR, has no parenthesis and is not the semicolon line
Unmatched(line) ==
    /\ line # <<>>
    /\ line # <<";">>
    /\ OrdinaryStart(line)
    /\ Count(line, "(") = 0
    /\ Count(line, ")") = 0
    /\ \A k \in 1..Len(left_clause_patterns) :
           MatchPattern(line, 1, left_clause_patterns[k]) = 0
    /\ ~StartsWith(Upper(line), kAND \o <<" ">>)
    /\ ~StartsWith(Upper(line), kOR \o <<" ">>)

\* text is a string made of the characters of source, their upper-case forms,
\* blanks and newlines
IsTextOf(text, source) ==
    /\ DOMAIN text = 1..Len(text)
    /\ \A k \in 1..Len(text) :
           \/ text[k] \in {" ", "\n"}
           \/ \E j \in 1..Len(source) : text[k] \in {source[j], UpperChar(source[j])}

\* C11: format_sql is total: every step of a running call, whatever the input,
\* takes the call on (to its next phase, or in the render loop by one or two
\* logical lines and at least one rendered line), and what the call returns is
\* a string; and a logical line that matches no specific rendering rule is
\* rendered as one line with its content from column primary + 1.
C11_TotalWithDefaultRule ==
    [][/\ Running =>
              \/ pc' # pc
              \/ /\ i' \in {i + 1, i + 2}
                 /\ Len(formatted_lines') > Len(formatted_lines)
       /\ pc' = "returned" => IsTextOf(result', sql)
       /\ (Rendering /\ Unmatched(Strip(logical_lines[i])))
              => /\ NewLines = <<Spaces(primary_river_pos + 1) \o Strip(logical_lines[i])>>
                 /\ i' = i + 1]_vars
\* the plain line b of WHERE a or / b has been rendered from column primary + 1
C11_Witness ==
    /\ pc = "render"
    /\ i > 1
    /\ logical_lines[i - 1] = <<"b">>
    /\ Unmatched(logical_lines[i - 1])
    /\ formatted_lines[Len(formatted_lines)] = Spaces(primary_river_pos + 1) \o <<"b">>

\* C12: a verification mismatch is advisory only: when the command has
\* printed, standard output holds exactly the formatted text, whatever
\* verify_river_lines returned, and the verification diagnostics are on
\* standard error only.
C12_StdoutIsFormattedText ==
    pc = "printed" => stdout = <<result>>

\* C13: once the analysis of a format_sql call has finished, the two rivers are
\* never written again: splitting, every iteration of the render loop, the
\* blank-line pass, verify_river_lines and the printing leave
\* primary_river_pos and secondary_river_pos as they were, so that from then
\* on they are the values the analysis calculated from the clauses of the
\* whole input.
C13_RiversFrozenAfterAnalysis ==
    /\ [][(pc \in {"split", "render", "returned", "verified"})
              => /\ primary_river_pos' = primary_river_pos
                 /\ secondary_river_pos' = secondary_river_pos]_vars
    /\ [](AfterAnalysis =>
              /\ primary_river_pos = calculate_primary_river(left_clauses)
              /\ secondary_river_pos =
                     calculate_secondary_river(primary_river_pos, secondary_clauses))
\* the loop has rendered lines of a statement with several clauses of different
\* lengths, and the text has been verified, with the rivers of the analysis
C13_Witness ==
    /\ pc = "verified"
    /\ Len(logical_lines) >= 3
    /\ Len(left_clauses) >= 2
    /\ primary_river_pos = calculate_primary_river(left_clauses)
    /\ primary_river_pos > 7

\* the non-whitespace tokens of a text, letter case and whitespace apart: its
\* upper-cased characters that are not whitespace, each with the mark TRUE when
\* it begins a token (the first character of a word, or a character that
\* belongs to no word)
IsTokenCharacter(marked) == ~IsSpace(marked[1])
TokenMarks(text) ==
    SelectSeq([p \in 1..Len(text) |->
                  <<UpperChar(text[p]),
                    ~(IsWordChar(text[p]) /\ p > 1 /\ IsWordChar(text[p - 1]))>>],
              IsTokenCharacter)

\* C14: format_sql preserves all original tokens: the sequence of non-whitespace
\* tokens of the text it returns equals that of the input, up to letter case
\* and the amount of whitespace.
C14_TokenSequencePreserved ==
    Returned => TokenMarks(result) = TokenMarks(sql)

\* line starts with WHEN, with CASE WHEN or with a comma and CASE WHEN
StartsCaseWhen(line) ==
    \/ StartsWith(Upper(Strip(line)), kCASE \o <<" ">> \o kWHEN)
    \/ StartsWith(Upper(Strip(line)), <<",", " ">> \o kCASE \o <<" ">> \o kWHEN)
StartsWhen(line) ==
    StartsWith(Upper(Strip(line)), kWHEN) \/ StartsCaseWhen(line)
\* line starts with one of these, a blank and text
StartsWhenFragment(line) ==
    \E kw \in {kWHEN, kCASE \o <<" ">> \o kWHEN, <<",", " ">> \o kCASE \o <<" ">> \o kWHEN} :
        StartsWith(Upper(Strip(line)), kw \o <<" ">>)
\* logical line i starts with one of these and the line after it with THEN
WhenBeforeThen ==
    /\ Rendering
    /\ StartsWhen(logical_lines[i])
    /\ i + 1 <= Len(logical_lines)
    /\ StartsWith(Upper(Strip(logical_lines[i + 1])), kTHEN)
\* the one line of a WHEN fragment and a THEN fragment: the comma at column
\* primary - 1 and CASE from primary + 1, or CASE ending at the primary river,
\* or WHEN ending at the secondary river; one blank; the THEN fragment
MergedLine(when_part, then_part) ==
    IF when_part[1] = ","
    THEN Spaces(primary_river_pos - 1) \o <<",", " ">> \o Strip(Tail(when_part))
             \o <<" ">> \o then_part
    ELSE IF StartsCaseWhen(when_part)
    THEN Spaces(primary_river_pos - 4) \o when_part \o <<" ">> \o then_part
    ELSE Spaces(secondary_river_pos - 4) \o when_part \o <<" ">> \o then_part

C16_ClosingParenAlone ==
    [][(Rendering /\ EndsWith(Strip(logical_lines[i]), <<")">>))
          => /\ NewLines[Len(NewLines)] = Spaces(primary_river_pos + 1) \o <<")">>
             /\ Strip(logical_lines[i]) = <<")">> => Len(NewLines) = 1
             /\ Strip(logical_lines[i]) # <<")">> => Len(NewLines) >= 2]_vars

\* logical line i is exactly ')' and the line after it exactly ';'
ParenBeforeSemicolon(lines, j) ==
    /\ j + 1 <= Len(lines)
    /\ Strip(lines[j]) = <<")">>
    /\ Strip(lines[j + 1]) = <<";">>

\* C17: whenever a logical line that is exactly ')' is immediately followed by
\* one that is exactly ';', the iteration consumes both and appends one line,
\* primary + 1 blanks followed by ');': no line ')' and no line ';' is
\* appended for them.
C17_ParenSemicolonCoalesced ==
    [][(Rendering /\ ParenBeforeSemicolon(logical_lines, i))
          => /\ i' = i + 2
             /\ NewLines = <<Spaces(primary_river_pos + 1) \o <<")", ";">> >>]_vars
\* the loop has consumed a ')' line and the ';' line after it, and the last
\* line it appended is ');' at column primary + 1
C17_Witness ==
    /\ pc = "render"
    /\ i > 2
    /\ ParenBeforeSemicolon(logical_lines, i - 2)
    /\ formatted_lines[Len(formatted_lines)] = Spaces(primary_river_pos + 1) \o <<")", ";">>

\* the logical operator (AND or OR, any letter case) that is the first word of
\* line: the set of them, empty when the line starts otherwise
LeadingOperator(line) ==
    {op \in {kAND, kOR} : MatchWords(Strip(line), 1, <<op>>) # 0}

\* C18: a logical line that an AND or OR token (any letter case) has started,
\* also one on which the operator stands alone because it was the last token
\* of its physical line, is rendered with the upper-cased operator
\* right-aligned to the primary river, its last character at column primary - 1.
C18_OperatorAtPrimaryRiver ==
    [][\A op \in LeadingOperator(IF Rendering THEN logical_lines[i] ELSE <<>>) :
           /\ RightAligned(NewLines[1], op, primary_river_pos)
           /\ SubSeq(NewLines[1], primary_river_pos - Len(op) + 1, primary_river_pos) = op]_vars

\* the characters of a text that are not whitespace, upper-cased
Characters(text) == SelectSeq(Upper(text), LAMBDA c : ~IsSpace(c))

\* C19: a comment line (its trimmed form starts with '--') is kept whole: the
\* iteration that renders it appends exactly one line, which after its
\* indentation starts with '--' and one blank and holds all of the comment's
\* text.
C19_CommentLineKeptWhole ==
    [][(Rendering /\ StartsWith(Strip(logical_lines[i]), kDashes))
          => /\ i' = i + 1
             /\ Len(NewLines) = 1
             /\ StartsWith(LStrip(NewLines[1]), kDashes \o <<" ">>)
             /\ Characters(NewLines[1]) = Characters(logical_lines[i])]_vars

\* the keyword pairs of the splitter's look-ahead
CompoundPairs == {<<kGROUP, kBY>>, <<kORDER, kBY>>, <<kUNION, kALL>>}
\* line starts with the compound clause token of pair
StartsFused(line, pair) ==
    /\ StartsWith(line, pair[1] \o <<" ">> \o pair[2])
    /\ Len(line) > Len(pair[1]) + 1 + Len(pair[2])
           => line[Len(pair[1]) + Len(pair[2]) + 2] = " "
\* the words of pair (any letter case) follow each other in text, whitespace
\* between them
HasPair(text, pair) == \E p \in 1..Len(text) : MatchWords(text, p, pair) # 0

\* C20: the splitter has fused GROUP or ORDER with BY, or UNION with ALL, into
\* one compound clause token exactly when the token that follows the keyword
\* is BY (resp. ALL): a logical line starts with the compound token only if
\* the input has the two words one after the other, and, in an input without
\* comments, whenever it has them.
C20_FusedExactlyOnWholeWord ==
    (pc = "render" /\ i = 1) =>
        \A pair \in CompoundPairs :
           /\ (\E k \in 1..Len(logical_lines) : StartsFused(logical_lines[k], pair))
                  => HasPair(sql, pair)
           /\ (HasPair(sql, pair) /\ ~Contains(sql, kDashes))
                  => \E k \in 1..Len(logical_lines) : StartsFused(logical_lines[k], pair)

\* line is a closing parenthesis alone at column primary + 1
ClosingLine(line) ==
    /\ Strip(line) = <<")">>
    /\ Len(line) - Len(LStrip(line)) = primary_river_pos + 1
\* line starts, after its indentation, with a comma or with SELECT, INSERT,
\* UPDATE or DELETE
StartsStatement(line) ==
    \/ StartsWith(LStrip(line), <<",">>)
    \/ \E kw \in {kSELECT, kINSERT, kUPDATE, kDELETE} : StartsWith(Upper(LStrip(line)), kw)
\* the first line after line n that is not blank starts in that way
FollowedByStatement(lines, n) ==
    \E j \in (n + 1)..Len(lines) :
        /\ Strip(lines[j]) # <<>>
        /\ \A k \in (n + 1)..(j - 1) : Strip(lines[k]) = <<>>
        /\ StartsStatement(lines[j])

AfterLastCte(text, matches) ==
    IF matches = <<>> THEN <<>>
    ELSE Strip(From(text, matches[Len(matches)][2] - 1))

\* C22: the CTE inventory has a main-query entry after its CTE entries whenever
\* the content after the last name-AS-parenthesized-body match begins a SELECT,
\* INSERT, UPDATE or DELETE statement.
C22_MainQueryEntryForStatements ==
    pc = "extract_left" =>
        \A kw \in {kSELECT, kINSERT, kUPDATE, kDELETE} :
            MatchWords(AfterLastCte(remove_comments(sql),
                                    FindCtes(remove_comments(sql), 1)), 1, <<kw>>) # 0
                => /\ Len(cte_structure) = Len(FindCtes(remove_comments(sql), 1)) + 1
                   /\ ~cte_structure[Len(cte_structure)].has_parentheses

\* the index after the longest clause keyword of the classifier table that
\* stands at index p of line, 0 when none does
KeywordEnd(line, p) ==
    MaxOf({0} \cup {MatchWords(line, p, left_clause_patterns[k].words) :
                       k \in {j \in 1..Len(left_clause_patterns) :
                                 left_clause_patterns[j].kind = "words"}})
\* where the clause keywords of line start; a keyword that is part of a longer
\* one before it (the JOIN of LEFT JOIN) is not counted
ClauseKeywords(line) ==
    {p \in 1..Len(line) :
        /\ KeywordEnd(line, p) # 0
        /\ \A q \in 1..(p - 1) : KeywordEnd(line, q) <= p}

\* C23: every clause keyword of the classifier table in a non-comment input
\* line starts a new logical line, so that no logical line the splitter
\* returns holds more than one clause keyword.
C23_OneClauseKeywordPerLine ==
    (pc = "render" /\ i = 1) =>
        \A k \in 1..Len(logical_lines) :
            ~StartsWith(logical_lines[k], kDashes)
                => Cardinality(ClauseKeywords(logical_lines[k])) <= 1

\* the parenthesis depth after the first n logical lines, every line counted:
\* its '(' added, its ')' subtracted, not below zero
RECURSIVE DepthAfter(_, _)
DepthAfter(lines, n) ==
    IF n = 0 THEN 0
    ELSE Max0(DepthAfter(lines, n - 1) + Count(lines[n], "(") - Count(lines[n], ")"))

\* C24: the in-subquery flag with which logical line i is rendered is true
\* exactly when the parenthesis depth over all logical lines before it, the
\* lines consumed by WHEN / THEN merges included, is positive.
C24_FlagIsDepthOfAllLines ==
    Rendering => (in_subquery <=> DepthAfter(logical_lines, i - 1) > 0)

\* the multi-word clauses of the classifier table
MultiWordClauses ==
    {<<kSELECT, kDISTINCT>>, <<kGROUP, kBY>>, <<kORDER, kBY>>,
     <<kFULL, kOUTER, kJOIN>>, <<kLEFT, kOUTER, kJOIN>>, <<kRIGHT, kOUTER, kJOIN>>,
     <<kINNER, kJOIN>>, <<kLEFT, kJOIN>>, <<kRIGHT, kJOIN>>, <<kFULL, kJOIN>>,
     <<kCROSS, kJOIN>>, <<kUNION, kALL>>, <<kINSERT, kINTO>>,
     <<kCREATE, kTABLE>>, <<kCREATE, kTEMP, kTABLE>>}

\* C25: a logical line that begins with a multi-word clause of the classifier
\* table is rendered with the whole clause right-aligned to the primary river,
\* its last character at column primary - 1.
C25_WholeClauseAtRiver ==
    [][\A words \in MultiWordClauses :
           (Rendering /\ MatchWords(Strip(logical_lines[i]), 1, words) # 0)
               => RightAligned(NewLines[1], Join(words, <<" ">>), primary_river_pos)]_vars

\* the logical lines out, as split from the input line text, hold a comma only
\* as their first character and a semicolon only when they are exactly ';',
\* one line for each comma and each semicolon of the input line
CommasAndSemicolonsLead(text, out) ==
    /\ \A k \in 1..Len(out) :
           /\ \A p \in 2..Len(out[k]) : out[k][p] # ","
           /\ Count(out[k], ";") > 0 => out[k] = <<";">>
    /\ Cardinality({k \in 1..Len(out) : out[k][1] = ","}) = Count(text, ",")
    /\ Cardinality({k \in 1..Len(out) : out[k] = <<";">>}) = Count(text, ";")

\* C26: for every input line, the logical lines _split_into_logical_lines
\* returns hold a comma only as their first character and a semicolon only as
\* the line ';': every comma opens a new line that begins with it, every
\* semicolon is a line of its own.
C26_CommaFirstSemicolonAlone ==
    (pc = "render" /\ i = 1) =>
        \A n \in 1..Len(SplitOn(sql, "\n")) :
            CommasAndSemicolonsLead(SplitOn(sql, "\n")[n],
                                    split_into_logical_lines(SplitOn(sql, "\n")[n]))
\* a document with commas and a semicolon has been split: a logical line
\* begins with a comma and another is the semicolon
C26_Witness ==
    /\ pc = "render"
    /\ i = 1
    /\ Count(sql, ",") > 0
    /\ \E k \in 1..Len(logical_lines) :
           logical_lines[k][1] = "," /\ Len(logical_lines[k]) > 1
    /\ \E k \in 1..Len(logical_lines) : logical_lines[k] = <<";">>

\* wherever the scan of the splitter stands in text (at a character that is
\* not whitespace), the iteration leaves it further on and within the text:
\* after the token read, and after the BY / ALL that the look-ahead skips
ScanAdvances(text) ==
    \A p \in {q \in 1..Len(text) : ~IsSpace(text[q])} :
        /\ ReadToken(text, p)[2] > p
        /\ Compound(text, ReadToken(text, p)[1], ReadToken(text, p)[2])[2]
               >= ReadToken(text, p)[2]
        /\ Compound(text, ReadToken(text, p)[1], ReadToken(text, p)[2])[2]
               <= Len(text) + 1

\* C27: both loops of format_sql terminate: on every input line the scan index
\* of the splitter increases in every iteration, the look-ahead skips included,
\* and every iteration of the render loop advances the line index by 1 or 2,
\* never beyond the end of the logical lines.
C27_LoopsAdvance ==
    /\ pc = "format_sql" =>
           \A n \in 1..Len(SplitOn(sql, "\n")) : ScanAdvances(Strip(SplitOn(sql, "\n")[n]))
    /\ pc = "render" => i <= Len(logical_lines) + 1
    /\ Rendering =>
           /\ render_iteration(self, logical_lines, i, paren_depth, in_subquery).consumed
                  \in {1, 2}
           /\ i + render_iteration(self, logical_lines, i, paren_depth, in_subquery).consumed
                  <= Len(logical_lines) + 1
\* the render loop has come to its end on a document in which the look-ahead
\* fused GROUP BY and an iteration consumed two logical lines
C27_Witness ==
    /\ pc = "render"
    /\ i = Len(logical_lines) + 1
    /\ Len(formatted_lines) < Len(logical_lines)
    /\ \E k \in 1..Len(logical_lines) : StartsFused(logical_lines[k], <<kGROUP, kBY>>)

\* the keywords the renderer aligns to the secondary river
SecondaryKeywords ==
    {kCASE \o <<" ">> \o kWHEN, kWHEN, kTHEN, kELSE, kEND, kSELECT, kFROM, kWHERE}
\* C28: after the analysis of a non-blank input the primary river is at least
\* 7 and the secondary river lies 7 to 10 columns to the right of it.
\* A line appended with one of these keywords right-aligned to the secondary
\* river has a blank in the primary river column.
C28_RiversApart ==
    /\ [](AfterAnalysis =>
             /\ primary_river_pos >= 7
             /\ primary_river_pos + 7 <= secondary_river_pos
             /\ secondary_river_pos <= primary_river_pos + 10)
    /\ [][Rendering =>
             \A n \in 1..Len(NewLines) : \A kw \in SecondaryKeywords :
                 RightAligned(NewLines[n], kw, secondary_river_pos) =>
                     NewLines[n][primary_river_pos + 1] = " "]_vars
\* the analysis found left clauses and secondary clauses without CASE WHEN, and
\* the secondary river is taken from the longest secondary clause
C28_Witness ==
    /\ AfterAnalysis
    /\ primary_river_pos > 7
    /\ secondary_clauses # <<>>
    /\ secondary_river_pos = primary_river_pos + 8
    /\ \E n \in 1..Len(formatted_lines) :
           RightAligned(formatted_lines[n], kTHEN, secondary_river_pos)

\* C29: before the first and at the end of every iteration of the render loop
\* the parenthesis depth is not negative and the subquery flag is set exactly
\* when the depth is positive.
C29_FlagFollowsDepth ==
    pc = "render" => /\ paren_depth >= 0
                     /\ in_subquery <=> paren_depth > 0
\* after an iteration on a line with a closing parenthesis the loop is still
\* inside an open parenthesis
C29_Witness ==
    /\ pc = "render"
    /\ i > 1
    /\ paren_depth > 0
    /\ in_subquery
    /\ Count(logical_lines[i - 1], ")") > 0

\* the logical lines of an input line that is not a comment line: a logical
\* line that starts with the comment marker is the last one of its input line
MarkerLineIsLast(out) ==
    \A k \in 1..(Len(out) - 1) : ~StartsWith(out[k], kDashes)

\* C30: what follows a comment marker in the middle of an input line stays in
\* the comment: the logical line that the marker starts is the last of its
\* input line, and in the text returned for a one-line input no line follows
\* the line of the marker.
C30_CommentTextStaysInComment ==
    /\ (pc = "render" /\ i = 1) =>
           \A n \in 1..Len(SplitOn(sql, "\n")) :
               ~StartsWith(Strip(SplitOn(sql, "\n")[n]), kDashes) =>
                   MarkerLineIsLast(split_into_logical_lines(SplitOn(sql, "\n")[n]))
    /\ (Returned /\ Count(sql, "\n") = 0 /\ ~StartsWith(Strip(sql), kDashes)) =>
           MarkerLineIsLast([n \in 1..Len(LinesOf(result)) |-> LStrip(LinesOf(result)[n])])

=============================================================================
